---- MODULE Spec2Model ----
(***************************************************************************)
(* Model of the Huenik/Crawler repository: the recursive crawl of          *)
(* Crawler.py (WebCrawler), the archive step of main.py (download_all) and *)
(* the grouping of Combiner.py (group_urls_by_prefix, combine_group), and  *)
(* the program of main.py with its two progress threads, and the          *)
(* splitting into pieces of HtmlCombiner.py (combine_html_files).          *)
(* URLs are sequences of one-character strings, so that the string         *)
(* operations of the code (rstrip, startswith, urljoin, urlparse, re.sub)  *)
(* are computed on characters.                                             *)
(***************************************************************************)
EXTENDS Integers, Sequences, FiniteSets, TLC

----------------------------------------------------------------------------
(* Bounds of the model *)

\* largest value of the -d / --depth argument that is explored
MaxDepthArg == 2
\* largest value of the --outside-depth argument that is explored
MaxOutsideArg == 2
\* largest number of distinct anchors on one page
MaxAnchors == 2
\* largest number of links handed to download_all
MaxLinks == 3
\* number of download_all runs on one output directory
MaxRuns == 2
\* largest number of lines of the map file handed to the combiner
MaxPairs == 3
\* largest value of the -p / --parents argument that is explored
MaxParents == 4
\* largest number of .html files in the directory handed to combine_html_files
MaxHtml == 3

----------------------------------------------------------------------------
(* The strings of the model *)

HTTP == <<"h","t","t","p",":","/","/">>
\* http://e/d   and   http://e/d/
U_seed == HTTP \o <<"e","/","d">>
U_seedSlash == U_seed \o <<"/">>
\* /d/a : a reference with an absolute path, http://e/d/a from every page (below the seed)
H_a == <<"/","d","/","a">>
\* /c : http://e/c from every page (not below the seed)
H_c == <<"/","c">>
\* http://[ : urlsplit raises ValueError("Invalid IPv6 URL") on it
H_bad == HTTP \o <<"[">>
\* the src of the script tag every page of the site carries
JS_src == <<"j">>

\* http://e/d/a and http://e/d_a : two links with one derived filename
L_a == HTTP \o <<"e","/","d","/","a">>
L_u == HTTP \o <<"e","/","d","_","a">>
\* http://e/?a : an empty path and a query
L_q == HTTP \o <<"e","/","?","a">>
\* http://e/i.PNG : an image
L_img == HTTP \o <<"e","/","i",".","P","N","G">>
\* m:x : a link that does not start with http
L_mail == <<"m",":","x">>
\* the links download_all can be handed
DlUrls == {L_a, L_u, L_q, L_img, L_mail}

\* http://e/k/a/1, http://e/k/a/2, http://e/k/b/1 and http://e/k_a/1 : the
\* URLs of the map file the combiner reads
G_a1 == HTTP \o <<"e","/","k","/","a","/","1">>
G_a2 == HTTP \o <<"e","/","k","/","a","/","2">>
G_b1 == HTTP \o <<"e","/","k","/","b","/","1">>
G_u1 == HTTP \o <<"e","/","k","_","a","/","1">>
MapUrls == {G_a1, G_a2, G_b1, G_u1}

\* the url argument of WebCrawler(...)
SeedInputs == {U_seed, U_seedSlash}
\* http://o/d : the -u argument of main(); on its site the href http://e/d
\* leads to another host
U_main == HTTP \o <<"o","/","d">>
MainSeeds == {U_main}

\* http://e and http://e/ : seeds without a path
S_host == HTTP \o <<"e">>
S_hostSlash == HTTP \o <<"e","/">>
\* the url arguments and the links is_within_prefix is applied to
ClassifySeeds == {S_host, S_hostSlash, U_seed, U_seedSlash}
ClassifyLinks ==
    {L_a, L_u, S_hostSlash,
     HTTP \o <<"e","/","c">>,
     HTTP \o <<"e",".","o","/","x">>,
     HTTP \o <<"e","@","o","/","x">>,
     HTTP \o <<"o","/","x">>}
\* the href values an anchor of a page can carry
Hrefs == {U_seed, H_a, H_c, H_bad}

----------------------------------------------------------------------------
(* String functions of the Python library, on character sequences *)

\* str.startswith
StartsWith(s, p) ==
    /\ Len(p) <= Len(s)
    /\ SubSeq(s, 1, Len(p)) = p

\* str.endswith
EndsWith(s, p) ==
    /\ Len(p) <= Len(s)
    /\ SubSeq(s, Len(s) - Len(p) + 1, Len(s)) = p

\* str.rstrip('/')
RECURSIVE RStripSlash(_)
RStripSlash(s) ==
    IF s # <<>> /\ s[Len(s)] = "/" THEN RStripSlash(SubSeq(s, 1, Len(s) - 1)) ELSE s

\* the positions of s holding a character of set cs
Positions(s, cs) == {i \in 1..Len(s) : s[i] \in cs}

SetMax(S) == CHOOSE x \in S : \A y \in S : y <= x
SetMin(S) == CHOOSE x \in S : \A y \in S : x <= y

\* urlsplit: a reference has a scheme when it starts with "http://"
\* (the only scheme of the model's strings)
HasNetloc(u) == StartsWith(u, HTTP)

\* urlsplit: the netloc runs from after "//" to the next "/", "?" or "#"
NetlocEnd(u) ==
    LET stops == {i \in Positions(u, {"/", "?", "#"}) : i > Len(HTTP)}
    IN  IF stops = {} THEN Len(u) ELSE SetMin(stops) - 1

Netloc(u) == IF HasNetloc(u) THEN SubSeq(u, Len(HTTP) + 1, NetlocEnd(u)) ELSE <<>>

\* urlsplit raises ValueError when the netloc has "[" without "]" or "]" without "["
UrlSplitRaises(u) ==
    LET n == Netloc(u)
    IN  (Positions(n, {"["}) # {}) # (Positions(n, {"]"}) # {})

\* urljoin(base, href) raises when urlparse of either argument raises
UrlJoinRaises(base, href) == UrlSplitRaises(base) \/ UrlSplitRaises(href)

\* urljoin(base, href): a reference with a netloc replaces the base, an
\* absolute path replaces the path of the base, a relative path replaces
\* the last segment of the base's path
UrlJoin(base, href) ==
    IF HasNetloc(href) THEN href
    ELSE IF href # <<>> /\ href[1] = "/" THEN SubSeq(base, 1, NetlocEnd(base)) \o href
    ELSE LET slashes == {i \in Positions(base, {"/"}) : i > NetlocEnd(base)}
         IN  IF slashes = {} THEN base \o <<"/">> \o href
             ELSE SubSeq(base, 1, SetMax(slashes)) \o href

\* [a-zA-Z0-9]
Alnum ==
    {"a","b","c","d","e","f","g","h","i","j","k","l","m","n","o","p","q","r","s",
     "t","u","v","w","x","y","z",
     "A","B","C","D","E","F","G","H","I","J","K","L","M","N","O","P","Q","R","S",
     "T","U","V","W","X","Y","Z",
     "0","1","2","3","4","5","6","7","8","9"}

\* re.match(r"https?://([a-zA-Z0-9.-]+)", href)
HostChars == Alnum \cup {".", "-"}
MatchesSubdomain(href) ==
    \E p \in {HTTP, <<"h","t","t","p","s",":","/","/">>} :
        /\ StartsWith(href, p)
        /\ Len(href) > Len(p)
        /\ href[Len(p) + 1] \in HostChars

\* str.lower, on the upper-case characters of the model's strings
LowerChar(c) ==
    CASE c = "P" -> "p"
      [] c = "N" -> "n"
      [] c = "G" -> "g"
      [] OTHER -> c

Lower(s) == [i \in 1..Len(s) |-> LowerChar(s[i])]

\* urlparse(url).path: from the end of the netloc to the first "?" or "#"
UrlPath(u) ==
    LET stops == {i \in Positions(u, {"?", "#"}) : i > NetlocEnd(u)}
    IN  SubSeq(u, NetlocEnd(u) + 1, IF stops = {} THEN Len(u) ELSE SetMin(stops) - 1)

\* urlparse(url).query: from after the first "?" to the "#"
UrlQuery(u) ==
    LET marks == {i \in Positions(u, {"?"}) : i > NetlocEnd(u)}
        frags == Positions(u, {"#"})
        stop == IF frags = {} THEN Len(u) ELSE SetMin(frags) - 1
    IN  IF marks = {} \/ SetMin(marks) > stop THEN <<>>
        ELSE SubSeq(u, SetMin(marks) + 1, stop)

\* re.sub(r'[^a-zA-Z0-9_\-\.]', '_', s)
ReSubUnsafe(s) ==
    [i \in 1..Len(s) |-> IF s[i] \in Alnum \cup {"_", "-", "."} THEN s[i] ELSE "_"]

DOT_HTML == <<".","h","t","m","l">>

\* Downloader.sanitize_filename
sanitize_filename(u) ==
    LET sub == ReSubUnsafe(UrlPath(u))
        safe_path == IF sub = <<>> \/ sub = <<"_">> THEN <<"i","n","d","e","x">> ELSE sub
        named == Netloc(u) \o safe_path
        filename == IF UrlQuery(u) # <<>>
                    THEN named \o <<"_">> \o ReSubUnsafe(UrlQuery(u))
                    ELSE named
    IN  IF EndsWith(filename, DOT_HTML) THEN filename ELSE filename \o DOT_HTML

\* download_all: image_extensions
image_extensions ==
    { <<".","j","p","g">>, <<".","j","p","e","g">>, <<".","p","n","g">>,
      <<".","g","i","f">>, <<".","b","m","p">>, <<".","s","v","g">>, <<".","i","c","o">> }

\* download_all: link.startswith("http")
StartsWithHttp(link) == StartsWith(link, <<"h","t","t","p">>)

\* download_all: link.lower().endswith(image_extensions)
IsImage(link) == \E e \in image_extensions : EndsWith(Lower(link), e)

\* every URL a crawl of the model can name: the references resolved against
\* each other until nothing new appears
RECURSIVE UrlClosure(_)
UrlClosure(S) ==
    LET T == S \cup {UrlJoin(b, h) : b \in S, h \in {x \in Hrefs : ~UrlSplitRaises(x)}}
    IN  IF T = S THEN S ELSE UrlClosure(T)

Urls == UrlClosure({RStripSlash(s) : s \in SeedInputs \cup MainSeeds})

\* the links download_all can be handed, by its caller or by main()
Links == DlUrls \cup Urls

\* the names download_all can give a file
Filenames == {sanitize_filename(l) : l \in {x \in Links : StartsWithHttp(x)}}

\* str.lstrip('/')
RECURSIVE LStripSlash(_)
LStripSlash(s) ==
    IF s # <<>> /\ s[1] = "/" THEN LStripSlash(Tail(s)) ELSE s

\* str.strip('/')
StripSlash(s) == LStripSlash(RStripSlash(s))

\* str.split('/')
RECURSIVE SplitSlash(_)
SplitSlash(s) ==
    LET ps == Positions(s, {"/"})
    IN  IF ps = {} THEN <<s>>
        ELSE <<SubSeq(s, 1, SetMin(ps) - 1)>> \o SplitSlash(SubSeq(s, SetMin(ps) + 1, Len(s)))

\* "/".join(segments)
RECURSIVE JoinSlash(_)
JoinSlash(segments) ==
    IF segments = <<>> THEN <<>>
    ELSE IF Len(segments) = 1 THEN segments[1]
    ELSE segments[1] \o <<"/">> \o JoinSlash(Tail(segments))

\* "\n".join(chunks), on texts that are sequences of strings
RECURSIVE JoinNewline(_)
JoinNewline(chunks) ==
    IF chunks = <<>> THEN <<>>
    ELSE IF Len(chunks) = 1 THEN chunks[1]
    ELSE chunks[1] \o <<"\n">> \o JoinNewline(Tail(chunks))

\* the slice s[:c] of a list
PySliceTo(s, c) ==
    LET stop == IF c >= 0 THEN c ELSE Len(s) + c
    IN  SubSeq(s, 1, IF stop < 0 THEN 0 ELSE IF stop > Len(s) THEN Len(s) ELSE stop)

\* str.replace(old, new) for one-character old and new
ReplaceChar(s, old, new) == [i \in 1..Len(s) |-> IF s[i] = old THEN new ELSE s[i]]

\* Combiner.get_path_segments
get_path_segments(u) ==
    LET path_str == StripSlash(UrlPath(u))
    IN  IF path_str = <<>> THEN <<>> ELSE SplitSlash(path_str)

\* combine_group: combined_filename
combined_filename(prefix_key) ==
    LET sanitized_prefix ==
            IF prefix_key = <<>> THEN <<"r","o","o","t">>
            ELSE ReplaceChar(ReplaceChar(prefix_key, "/", "_"), ":", "_")
    IN  <<"c","o","m","b","i","n","e","d","_">> \o sanitized_prefix \o DOT_HTML

\* the (url, filename) lines download_all writes for the URLs of the map
MapPairs == {<<u, sanitize_filename(u)>> : u \in MapUrls}

\* the page files the lines of the map name
MapFiles == {p[2] : p \in MapPairs}

\* the names combine_group can give a combined file
OutNames ==
    UNION {{combined_filename(JoinSlash(PySliceTo(get_path_segments(u), n))) :
               n \in 0..Len(get_path_segments(u))} : u \in MapUrls}

\* ord(c), for the characters of the file names
CodePoint(c) ==
    CASE c = "." -> 46
      [] c = "1" -> 49 [] c = "2" -> 50 [] c = "3" -> 51 [] c = "4" -> 52
      [] c = "5" -> 53 [] c = "6" -> 54 [] c = "7" -> 55 [] c = "8" -> 56
      [] c = "9" -> 57
      [] c = "_" -> 95
      [] c = "a" -> 97 [] c = "b" -> 98 [] c = "h" -> 104 [] c = "l" -> 108
      [] c = "m" -> 109 [] c = "p" -> 112 [] c = "t" -> 116

\* s < t, for str
RECURSIVE StrLess(_, _)
StrLess(s, t) ==
    IF t = <<>> THEN FALSE
    ELSE IF s = <<>> THEN TRUE
    ELSE IF s[1] = t[1] THEN StrLess(Tail(s), Tail(t))
    ELSE CodePoint(s[1]) < CodePoint(t[1])

\* sorted(S), for a set of str
RECURSIVE Sorted(_)
Sorted(S) ==
    IF S = {} THEN <<>>
    ELSE LET least == CHOOSE x \in S : \A y \in S \ {x} : StrLess(x, y)
         IN  <<least>> \o Sorted(S \ {least})

\* str(n), for a number of one digit
Decimal(n) == <<<<"1","2","3","4","5","6","7","8","9">>[n]>>

\* a.html, b.html : two pages of the directory
N_a == <<"a">> \o DOT_HTML
N_b == <<"b">> \o DOT_HTML
\* combine_html_files: output_file_prefix, a path into the directory itself
\* (as with the defaults "." and "combined" of the script)
output_file_prefix == <<"p">>

\* combine_html_files: output_filename
output_filename(piece_index) ==
    output_file_prefix \o <<"_">> \o Decimal(piece_index) \o DOT_HTML

\* the .html files the directory can hold when combine_html_files is called:
\* two pages and two pieces left by an earlier call
InputNames == {N_a, N_b, output_filename(1), output_filename(2)}

\* the names of the directory
DirNames == InputNames \cup {output_filename(i) : i \in 1..(MaxHtml + 1)}

----------------------------------------------------------------------------
(* State *)

VARIABLES
    url,            \* WebCrawler.url
    max_depth,      \* WebCrawler.max_depth
    outside_depth,  \* WebCrawler.outside_depth
    links,          \* WebCrawler.links
    subdomains,     \* WebCrawler.subdomains
    jsfiles,        \* WebCrawler.jsfiles
    stack,          \* the activation records of crawl(), innermost last
    status,         \* of start_crawling: "running", "returned", "raised"
    web,            \* the site: the page served for each URL, once it is known
    net,            \* the site: for each URL the outcomes of its requests, in order
    requests,       \* the requests.get calls of this run: <<url, depth, ok>> per call
    fetches,        \* for each URL the number of requests.get calls of this run
    entered,        \* the crawl() calls of this run: <<current_url, depth>> per call
    found,          \* the links.add calls of this run: <<current_url, depth, full_link>>
    calls,          \* number of crawl() calls of this run
    run,            \* the number of the crawl run
    prev,           \* how the preceding run ended and the links it left
    dl_links,       \* download_all: the links argument
    verbose,        \* download_all: the verbose argument
    files,          \* the output directory: for each name the page file, when it exists
    map_file,       \* the output directory: the lines of download_map.txt, when it exists
    counter,        \* download_all: counter["count"]
    finished,       \* download_all: finished_flag["finished"]
    spinner,        \* the spinner_download thread: "none", "polling", "done"
    idx,            \* spinner_download: idx, modulo the number of spinner_chars
    dl_pc,          \* download_all: "idle", "loop", "join", "returned", "raised"
    dl_todo,        \* download_all: the links the for loop has not reached
    dl_fetches,     \* for each link the number of requests.get calls of this run
    dl_written,     \* the names of the page files this run wrote
    dl_run,         \* the number of the download_all run
    dl_prev,        \* the directory and the files written when the preceding run ended
    cb_pairs,       \* Combiner.main: url_filename_pairs
    parents,        \* Combiner.main: args.parents
    cb_pc,          \* Combiner.main: "idle", "group", "next", "items", "done", "raised"
    cb_i,           \* group_urls_by_prefix: the position of the for loop in urls
    groups,         \* group_urls_by_prefix: groups, the keys in insertion order
    cb_g,           \* Combiner.main: the position of the for loop in groups.items()
    cb_j,           \* combine_group: the position of the for loop in items
    combined_content, \* combine_group: combined_content
    warnings,       \* combine_group: the files the call warned about, in order
    src_dir,        \* the input directory: for each page file its text, once it is known
    out_dir,        \* the output directory: for each name the combined file
    classified,     \* the is_within_prefix calls made from outside: <<link, result>>
    main_pc,        \* main(): "none", "crawl", "joined", "ready", "archive", "done", "raised"
    progress,       \* the spinner_and_progress thread: "none", "polling", "done"
    p_idx,          \* spinner_and_progress: idx, modulo the number of spinner_chars
    links_ref,      \* the set crawler.links is bound to: "crawler" (built by __init__), "filtered"
    hc_dir,         \* combine_html_files: the directory: for each name the file, when it exists
    hc_input,       \* the directory as it was when combine_html_files was called
    html_files,     \* combine_html_files: html_files
    hc_i,           \* combine_html_files: the position of the for loop in html_files
    piece_index,    \* combine_html_files: piece_index
    current_chunk,  \* combine_html_files: current_chunk
    current_chunk_size, \* combine_html_files: current_chunk_size
    pieces,         \* the pieces written by this call, in order: index, name and text
    hc_pc           \* combine_html_files: "idle", "loop", "done"

crawlVars == <<url, max_depth, outside_depth, links, subdomains, jsfiles,
               stack, status, web, net, requests, fetches, entered, found, calls, run, prev>>

dlVars == <<dl_links, verbose, files, map_file, counter, finished, spinner, idx,
            dl_pc, dl_todo, dl_fetches, dl_written, dl_run, dl_prev>>

cbVars == <<cb_pairs, parents, cb_pc, cb_i, groups, cb_g, cb_j, combined_content,
            warnings, src_dir, out_dir>>

mainVars == <<classified, main_pc, progress, p_idx, links_ref>>

hcVars == <<hc_dir, hc_input, html_files, hc_i, piece_index, current_chunk,
            current_chunk_size, pieces, hc_pc>>

\* what a step of the crawl leaves alone, what a step of download_all does,
\* and what a step of the combiner does
offCrawl == <<dlVars, cbVars, mainVars, hcVars>>
offDownload == <<crawlVars, cbVars, mainVars, hcVars>>
offCombine == <<crawlVars, dlVars, mainVars, hcVars>>
offPieces == <<crawlVars, dlVars, cbVars, mainVars>>

vars == <<crawlVars, dlVars, cbVars, mainVars, hcVars>>

----------------------------------------------------------------------------
(* The site *)

NoPage == [known |-> FALSE, hrefs |-> {}, scripts |-> {}]

\* the pages a URL can serve
Pages ==
    {p \in [known : {TRUE}, hrefs : SUBSET Hrefs, scripts : {{JS_src}}] :
        Cardinality(p.hrefs) <= MaxAnchors}

----------------------------------------------------------------------------
(* Crawler.py *)

\* WebCrawler.is_within_prefix
is_within_prefix(link) == StartsWith(link, url)

\* the two limits exchanged
DepthLimit_swapped(current_url) ==
    IF is_within_prefix(current_url) THEN outside_depth ELSE max_depth

\* the depth limit crawl() applies to current_url
DepthLimit(current_url) ==
    IF is_within_prefix(current_url) THEN max_depth ELSE outside_depth

\* no link counts as crawled
InLinks_never(full_link) == FALSE

\* crawl(): the test that avoids crawling a link again
InLinks(full_link) == full_link \in links

Frame(u, d) == [url |-> u, depth |-> d, pc |-> "enter", todo |-> {}]

Top == stack[Len(stack)]

\* return from the innermost crawl(); start_crawling returns with the outermost
Pop ==
    /\ stack' = SubSeq(stack, 1, Len(stack) - 1)
    /\ status' = IF Len(stack) = 1 THEN "returned" ELSE status

\* the page file that does not exist
NoFile == [url |-> <<>>, body |-> 0]

\* the texts a response can carry
Bodies == {1, 2}

\* download_all has not been called and the output directory is empty
DlIdle ==
    /\ dl_links = {}
    /\ verbose = TRUE
    /\ files = [f \in Filenames |-> NoFile]
    /\ map_file = <<>>
    /\ counter = 0
    /\ finished = FALSE
    /\ spinner = "none"
    /\ idx = 0
    /\ dl_pc = "idle"
    /\ dl_todo = {}
    /\ dl_fetches = [l \in Links |-> 0]
    /\ dl_written = {}
    /\ dl_run = 0
    /\ dl_prev = [files |-> files, written |-> {}]

\* the page file whose presence is not known yet, and the combined file
\* that does not exist
UnknownSrc == [known |-> FALSE, exists |-> FALSE, html |-> <<>>]
NoOut == [exists |-> FALSE, text |-> <<>>]

\* the combiner has not been started
CbIdle ==
    /\ cb_pairs = <<>>
    /\ parents = 1
    /\ cb_pc = "idle"
    /\ cb_i = 1
    /\ groups = <<>>
    /\ cb_g = 1
    /\ cb_j = 1
    /\ combined_content = <<>>
    /\ warnings = <<>>
    /\ src_dir = [f \in MapFiles |-> UnknownSrc]
    /\ out_dir = [n \in OutNames |-> NoOut]

\* the file that does not exist
NoHtml == [exists |-> FALSE, parts |-> <<>>, size |-> 0, crlf |-> 0]

\* combine_html_files has not been called
HcIdle ==
    /\ hc_dir = [n \in DirNames |-> NoHtml]
    /\ hc_input = hc_dir
    /\ html_files = <<>>
    /\ hc_i = 1
    /\ piece_index = 1
    /\ current_chunk = <<>>
    /\ current_chunk_size = 0
    /\ pieces = <<>>
    /\ hc_pc = "idle"

\* main() is not running and nothing calls is_within_prefix from outside
MainIdle ==
    /\ classified = {}
    /\ main_pc = "none"
    /\ progress = "none"
    /\ p_idx = 0
    /\ links_ref = "crawler"

\* WebCrawler.__init__ followed by the call of start_crawling
Init ==
    /\ \E s \in SeedInputs : url = RStripSlash(s)
    /\ max_depth \in 0..MaxDepthArg
    /\ outside_depth \in 0..MaxOutsideArg
    /\ links = {}
    /\ subdomains = {}
    /\ jsfiles = {}
    /\ stack = <<Frame(url, 1)>>
    /\ status = "running"
    /\ web = [u \in Urls |-> NoPage]
    /\ net = [u \in Urls |-> <<>>]
    /\ requests = {}
    /\ fetches = [u \in Urls |-> 0]
    /\ entered = {<<url, 1>>}
    /\ found = {}
    /\ calls = 1
    /\ run = 1
    /\ prev = [status |-> "none", links |-> {}]
    /\ DlIdle
    /\ CbIdle
    /\ HcIdle
    /\ MainIdle

\* crawl(): the depth limit is exceeded, return without a request
CrawlDepthExceeded ==
    /\ status = "running"
    /\ Top.pc = "enter"
    /\ Top.depth > DepthLimit(Top.url)
    /\ Pop
    /\ UNCHANGED <<url, max_depth, outside_depth, links, subdomains, jsfiles,
                   web, net, requests, fetches, entered, found, calls, run, prev>>
    /\ UNCHANGED offCrawl

\* the outcome of the n-th request for u is fixed by the site once it happened
Outcome(u, okay) ==
    LET n == fetches[u] + 1
    IN  IF n <= Len(net[u])
        THEN /\ okay = net[u][n]
             /\ net' = net
        ELSE net' = [net EXCEPT ![u] = Append(@, okay)]

\* crawl(): requests.get or raise_for_status raises a RequestException
CrawlFetchFail ==
    /\ status = "running"
    /\ Top.pc = "enter"
    /\ Top.depth <= DepthLimit(Top.url)
    /\ Outcome(Top.url, FALSE)
    /\ requests' = requests \cup {<<Top.url, Top.depth, FALSE>>}
    /\ fetches' = [fetches EXCEPT ![Top.url] = @ + 1]
    /\ Pop
    /\ UNCHANGED <<url, max_depth, outside_depth, links, subdomains, jsfiles,
                   web, entered, found, calls, run, prev>>
    /\ UNCHANGED offCrawl

\* the crawler takes the URL it fetched as its url
CrawlFetchOK_rebased ==
    /\ status = "running"
    /\ Top.pc = "enter"
    /\ Top.depth <= DepthLimit(Top.url)
    /\ Outcome(Top.url, TRUE)
    /\ requests' = requests \cup {<<Top.url, Top.depth, TRUE>>}
    /\ fetches' = [fetches EXCEPT ![Top.url] = @ + 1]
    /\ \E p \in Pages :
        /\ web[Top.url].known => p = web[Top.url]
        /\ web' = [web EXCEPT ![Top.url] = p]
        /\ stack' = [stack EXCEPT ![Len(stack)] = [@ EXCEPT !.pc = "loop", !.todo = p.hrefs]]
    /\ url' = Top.url
    /\ UNCHANGED <<max_depth, outside_depth, links, subdomains, jsfiles,
                   status, entered, found, calls, run, prev>>
    /\ UNCHANGED offCrawl

\* crawl(): the page is fetched and parsed, soup.find_all('a') is taken
CrawlFetchOK ==
    /\ status = "running"
    /\ Top.pc = "enter"
    /\ Top.depth <= DepthLimit(Top.url)
    /\ Outcome(Top.url, TRUE)
    /\ requests' = requests \cup {<<Top.url, Top.depth, TRUE>>}
    /\ fetches' = [fetches EXCEPT ![Top.url] = @ + 1]
    /\ \E p \in Pages :
        /\ web[Top.url].known => p = web[Top.url]
        /\ web' = [web EXCEPT ![Top.url] = p]
        /\ stack' = [stack EXCEPT ![Len(stack)] = [@ EXCEPT !.pc = "loop", !.todo = p.hrefs]]
    /\ UNCHANGED <<url, max_depth, outside_depth, links, subdomains, jsfiles,
                   status, entered, found, calls, run, prev>>
    /\ UNCHANGED offCrawl

\* crawl(): urljoin raises on an anchor; nothing catches it, so every
\* activation is left and start_crawling raises
CrawlAnchorRaise ==
    /\ status = "running"
    /\ Top.pc = "loop"
    /\ \E href \in Top.todo :
        /\ UrlJoinRaises(Top.url, href)
        /\ stack' = <<>>
        /\ status' = "raised"
    /\ UNCHANGED <<url, max_depth, outside_depth, links, subdomains, jsfiles,
                   web, net, requests, fetches, entered, found, calls, run, prev>>
    /\ UNCHANGED offCrawl

\* crawl(): an anchor whose full_link is not in links: record it and recurse
CrawlAnchorNew ==
    /\ status = "running"
    /\ Top.pc = "loop"
    /\ \E href \in Top.todo :
        LET full_link == UrlJoin(Top.url, href) IN
        /\ ~UrlJoinRaises(Top.url, href)
        /\ ~InLinks(full_link)
        /\ subdomains' = IF MatchesSubdomain(href) THEN subdomains \cup {href} ELSE subdomains
        /\ links' = links \cup {full_link}
        /\ stack' = Append([stack EXCEPT ![Len(stack)] = [@ EXCEPT !.todo = @ \ {href}]],
                           Frame(full_link, Top.depth + 1))
        /\ entered' = entered \cup {<<full_link, Top.depth + 1>>}
        /\ found' = found \cup {<<Top.url, Top.depth, full_link>>}
        /\ calls' = calls + 1
    /\ UNCHANGED <<url, max_depth, outside_depth, jsfiles, status, web, net,
                   requests, fetches, run, prev>>
    /\ UNCHANGED offCrawl

\* crawl(): an anchor whose full_link is already in links
CrawlAnchorSeen ==
    /\ status = "running"
    /\ Top.pc = "loop"
    /\ \E href \in Top.todo :
        LET full_link == UrlJoin(Top.url, href) IN
        /\ ~UrlJoinRaises(Top.url, href)
        /\ InLinks(full_link)
        /\ subdomains' = IF MatchesSubdomain(href) THEN subdomains \cup {href} ELSE subdomains
        /\ stack' = [stack EXCEPT ![Len(stack)] = [@ EXCEPT !.todo = @ \ {href}]]
    /\ UNCHANGED <<url, max_depth, outside_depth, links, jsfiles, status, web, net,
                   requests, fetches, entered, found, calls, run, prev>>
    /\ UNCHANGED offCrawl

\* crawl(): the anchors are exhausted; the script tags are gathered and
\* the call returns
CrawlReturn ==
    /\ status = "running"
    /\ Top.pc = "loop"
    /\ Top.todo = {}
    /\ jsfiles' = jsfiles \cup web[Top.url].scripts
    /\ Pop
    /\ UNCHANGED <<url, max_depth, outside_depth, links, subdomains,
                   web, net, requests, fetches, entered, found, calls, run, prev>>
    /\ UNCHANGED offCrawl

CrawlStep ==
    \/ CrawlDepthExceeded
    \/ CrawlFetchFail
    \/ CrawlFetchOK
    \/ CrawlAnchorRaise
    \/ CrawlAnchorNew
    \/ CrawlAnchorSeen
    \/ CrawlReturn

\* a second WebCrawler is built for the same url and limits and crawls the
\* same site: its pages and the outcomes of its requests are those already seen
Restart ==
    /\ status # "running"
    /\ run = 1
    /\ prev' = [status |-> status, links |-> links]
    /\ run' = 2
    /\ links' = {}
    /\ subdomains' = {}
    /\ jsfiles' = {}
    /\ stack' = <<Frame(url, 1)>>
    /\ status' = "running"
    /\ requests' = {}
    /\ fetches' = [u \in Urls |-> 0]
    /\ entered' = {<<url, 1>>}
    /\ found' = {}
    /\ calls' = 1
    /\ UNCHANGED <<url, max_depth, outside_depth, web, net>>
    /\ UNCHANGED offCrawl

Next == CrawlStep

Spec == Init /\ [][Next]_vars

\* crawl() is sequential code and every request has a timeout, so the step
\* that is enabled is taken
FairSpec == Spec /\ WF_vars(Next)

NextOrder ==
    \/ CrawlStep
    \/ Restart

\* two crawls of one site, for the claims that compare crawls
SpecOrder == Init /\ [][NextOrder]_vars

----------------------------------------------------------------------------
(* main.py: download_all *)

\* no file counts as present
FileExists_never(filename) == FALSE

\* download_all: os.path.exists(filepath)
FileExists(filename) == files[filename] # NoFile

\* a crawler that is not crawling
CrawlerBuilt ==
    /\ max_depth = 0
    /\ outside_depth = 0
    /\ links = {}
    /\ subdomains = {}
    /\ jsfiles = {}
    /\ stack = <<>>
    /\ status = "returned"
    /\ web = [u \in Urls |-> NoPage]
    /\ net = [u \in Urls |-> <<>>]
    /\ requests = {}
    /\ fetches = [u \in Urls |-> 0]
    /\ entered = {}
    /\ found = {}
    /\ calls = 0
    /\ run = 1
    /\ prev = [status |-> "none", links |-> {}]

\* no crawl is under way
CrawlIdle ==
    /\ url = U_seed
    /\ CrawlerBuilt

\* an empty output directory, and the arguments of the download_all runs
InitDownload ==
    /\ CrawlIdle
    /\ CbIdle
    /\ HcIdle
    /\ MainIdle
    /\ dl_links \in {ls \in SUBSET DlUrls : Cardinality(ls) <= MaxLinks}
    /\ verbose \in BOOLEAN
    /\ files = [f \in Filenames |-> NoFile]
    /\ map_file = <<>>
    /\ counter = 0
    /\ finished = FALSE
    /\ spinner = "none"
    /\ idx = 0
    /\ dl_pc = "idle"
    /\ dl_todo = {}
    /\ dl_fetches = [l \in Links |-> 0]
    /\ dl_written = {}
    /\ dl_run = 0
    /\ dl_prev = [files |-> files, written |-> {}]

\* download_all is called, in a new process, with no link: it returns at once
DlStartEmpty ==
    /\ dl_pc \in {"idle", "returned", "raised"}
    /\ dl_run < MaxRuns
    /\ Cardinality(dl_links) = 0
    /\ dl_run' = dl_run + 1
    /\ dl_prev' = [files |-> files, written |-> dl_written]
    /\ dl_written' = {}
    /\ dl_fetches' = [l \in Links |-> 0]
    /\ dl_todo' = {}
    /\ spinner' = "none"
    /\ dl_pc' = "returned"
    /\ UNCHANGED <<dl_links, verbose, files, map_file, counter, finished, idx>>
    /\ UNCHANGED offDownload

\* download_all is called, in a new process: the counter and the flag are
\* set, the spinner thread is started unless verbose, the map file is
\* cleared, and the for loop begins
DlStart ==
    /\ dl_pc \in {"idle", "returned", "raised"}
    /\ dl_run < MaxRuns
    /\ Cardinality(dl_links) # 0
    /\ dl_run' = dl_run + 1
    /\ dl_prev' = [files |-> files, written |-> dl_written]
    /\ dl_written' = {}
    /\ dl_fetches' = [l \in Links |-> 0]
    /\ counter' = 0
    /\ finished' = FALSE
    /\ spinner' = IF verbose THEN "none" ELSE "polling"
    /\ idx' = 0
    /\ map_file' = <<>>
    /\ dl_todo' = dl_links
    /\ dl_pc' = "loop"
    /\ UNCHANGED <<dl_links, verbose, files>>
    /\ UNCHANGED offDownload

\* the for loop passes to the next link
Passed(link) ==
    /\ counter' = counter + 1
    /\ dl_todo' = dl_todo \ {link}

\* download_all: a link that does not start with http
DlSkipNonHttp ==
    /\ dl_pc = "loop"
    /\ \E link \in dl_todo :
        /\ ~StartsWithHttp(link)
        /\ Passed(link)
    /\ UNCHANGED <<dl_links, verbose, files, map_file, finished, spinner, idx,
                   dl_pc, dl_fetches, dl_written, dl_run, dl_prev>>
    /\ UNCHANGED offDownload

\* download_all: an image URL
DlSkipImage ==
    /\ dl_pc = "loop"
    /\ \E link \in dl_todo :
        /\ StartsWithHttp(link)
        /\ IsImage(link)
        /\ Passed(link)
    /\ UNCHANGED <<dl_links, verbose, files, map_file, finished, spinner, idx,
                   dl_pc, dl_fetches, dl_written, dl_run, dl_prev>>
    /\ UNCHANGED offDownload

\* download_all: the file of the link exists
DlSkipExisting ==
    /\ dl_pc = "loop"
    /\ \E link \in dl_todo :
        /\ StartsWithHttp(link)
        /\ ~IsImage(link)
        /\ FileExists(sanitize_filename(link))
        /\ Passed(link)
    /\ UNCHANGED <<dl_links, verbose, files, map_file, finished, spinner, idx,
                   dl_pc, dl_fetches, dl_written, dl_run, dl_prev>>
    /\ UNCHANGED offDownload

\* download_all: the page is fetched, written, and logged in the map
DlFetchOK ==
    /\ dl_pc = "loop"
    /\ \E link \in dl_todo, body \in Bodies :
        LET filename == sanitize_filename(link) IN
        /\ StartsWithHttp(link)
        /\ ~IsImage(link)
        /\ ~FileExists(filename)
        /\ dl_fetches' = [dl_fetches EXCEPT ![link] = @ + 1]
        /\ files' = [files EXCEPT ![filename] = [url |-> link, body |-> body]]
        /\ dl_written' = dl_written \cup {filename}
        /\ map_file' = Append(map_file, <<link, filename>>)
        /\ Passed(link)
    /\ UNCHANGED <<dl_links, verbose, finished, spinner, idx, dl_pc, dl_run, dl_prev>>
    /\ UNCHANGED offDownload

\* download_all: the request raises a RequestException
DlFetchFail ==
    /\ dl_pc = "loop"
    /\ \E link \in dl_todo :
        /\ StartsWithHttp(link)
        /\ ~IsImage(link)
        /\ ~FileExists(sanitize_filename(link))
        /\ dl_fetches' = [dl_fetches EXCEPT ![link] = @ + 1]
        /\ Passed(link)
    /\ UNCHANGED <<dl_links, verbose, files, map_file, finished, spinner, idx,
                   dl_pc, dl_written, dl_run, dl_prev>>
    /\ UNCHANGED offDownload

\* download_all: the page is fetched and open(filepath, "w") raises OSError;
\* only RequestException is caught, so download_all raises
DlSaveRaise ==
    /\ dl_pc = "loop"
    /\ \E link \in dl_todo :
        /\ StartsWithHttp(link)
        /\ ~IsImage(link)
        /\ ~FileExists(sanitize_filename(link))
        /\ dl_fetches' = [dl_fetches EXCEPT ![link] = @ + 1]
    /\ dl_pc' = "raised"
    /\ UNCHANGED <<dl_links, verbose, files, map_file, counter, finished, spinner, idx,
                   dl_todo, dl_written, dl_run, dl_prev>>
    /\ UNCHANGED offDownload

\* download_all: the page is fetched and written and open(map_file_path, "a")
\* raises OSError; download_all raises
DlLogRaise ==
    /\ dl_pc = "loop"
    /\ \E link \in dl_todo, body \in Bodies :
        LET filename == sanitize_filename(link) IN
        /\ StartsWithHttp(link)
        /\ ~IsImage(link)
        /\ ~FileExists(filename)
        /\ dl_fetches' = [dl_fetches EXCEPT ![link] = @ + 1]
        /\ files' = [files EXCEPT ![filename] = [url |-> link, body |-> body]]
        /\ dl_written' = dl_written \cup {filename}
    /\ dl_pc' = "raised"
    /\ UNCHANGED <<dl_links, verbose, map_file, counter, finished, spinner, idx,
                   dl_todo, dl_run, dl_prev>>
    /\ UNCHANGED offDownload

\* download_all: the loop is over, the flag is set; the thread is joined
\* when there is one
DlFinish ==
    /\ dl_pc = "loop"
    /\ dl_todo = {}
    /\ finished' = TRUE
    /\ dl_pc' = IF spinner = "none" THEN "returned" ELSE "join"
    /\ UNCHANGED <<dl_links, verbose, files, map_file, counter, spinner, idx,
                   dl_todo, dl_fetches, dl_written, dl_run, dl_prev>>
    /\ UNCHANGED offDownload

\* download_all: spinner_thread.join() returns
DlJoin ==
    /\ dl_pc = "join"
    /\ spinner = "done"
    /\ dl_pc' = "returned"
    /\ UNCHANGED <<dl_links, verbose, files, map_file, counter, finished, spinner, idx,
                   dl_todo, dl_fetches, dl_written, dl_run, dl_prev>>
    /\ UNCHANGED offDownload

\* the thread sets the flag it polls
SpinnerPoll_setsFlag ==
    /\ spinner = "polling"
    /\ ~finished
    /\ idx' = (idx + 1) % 4
    /\ finished' = TRUE
    /\ UNCHANGED <<dl_links, verbose, files, map_file, counter, spinner,
                   dl_pc, dl_todo, dl_fetches, dl_written, dl_run, dl_prev>>
    /\ UNCHANGED offDownload

\* spinner_download: one turn of the while loop
SpinnerPoll ==
    /\ spinner = "polling"
    /\ ~finished
    /\ idx' = (idx + 1) % 4
    /\ UNCHANGED <<dl_links, verbose, files, map_file, counter, finished, spinner,
                   dl_pc, dl_todo, dl_fetches, dl_written, dl_run, dl_prev>>
    /\ UNCHANGED offDownload

\* spinner_download: the flag is set, the thread ends
SpinnerExit ==
    /\ spinner = "polling"
    /\ finished
    /\ spinner' = "done"
    /\ UNCHANGED <<dl_links, verbose, files, map_file, counter, finished, idx,
                   dl_pc, dl_todo, dl_fetches, dl_written, dl_run, dl_prev>>
    /\ UNCHANGED offDownload

NextDownload ==
    \/ DlStartEmpty
    \/ DlStart
    \/ DlSkipNonHttp
    \/ DlSkipImage
    \/ DlSkipExisting
    \/ DlFetchOK
    \/ DlFetchFail
    \/ DlSaveRaise
    \/ DlLogRaise
    \/ DlFinish
    \/ DlJoin
    \/ SpinnerPoll
    \/ SpinnerExit

\* download_all runs on one output directory
SpecDownload == InitDownload /\ [][NextDownload]_vars

----------------------------------------------------------------------------
(* Combiner.py *)

\* the cutoff without the clamp at zero
Cutoff_unclamped(segments) == Len(segments) - parents

\* group_urls_by_prefix: cutoff
Cutoff(segments) ==
    IF Len(segments) - parents > 0 THEN Len(segments) - parents ELSE 0

\* group_urls_by_prefix: prefix_str
prefix_str(u) ==
    LET segments == get_path_segments(u)
    IN  JoinSlash(PySliceTo(segments, Cutoff(segments)))

\* the texts a page file can hold
HtmlBodies == {<<"p">>, <<"q">>}

\* what the input directory can hold under one name
SrcStates ==
    {[known |-> TRUE, exists |-> FALSE, html |-> <<>>]}
        \cup {[known |-> TRUE, exists |-> TRUE, html |-> b] : b \in HtmlBodies}

\* every file counts as present
os_path_exists_always(entry) == TRUE

\* combine_group: os.path.exists(file_path)
os_path_exists(entry) == entry.exists

\* combine_group: the text appended for one page file
Chunk(u, html) ==
    <<"<!-- START OF ">> \o u \o <<" -->\n">> \o html
        \o <<"\n<!-- END OF ">> \o u \o <<" -->\n">>

\* Combiner.main has read the lines of the map file and calls
\* group_urls_by_prefix
InitCombine ==
    /\ CrawlIdle
    /\ DlIdle
    /\ MainIdle
    /\ HcIdle
    /\ cb_pairs \in UNION {[1..n -> MapPairs] : n \in 0..MaxPairs}
    /\ parents \in 0..MaxParents
    /\ cb_pc = "group"
    /\ cb_i = 1
    /\ groups = <<>>
    /\ cb_g = 1
    /\ cb_j = 1
    /\ combined_content = <<>>
    /\ warnings = <<>>
    /\ src_dir = [f \in MapFiles |-> UnknownSrc]
    /\ out_dir = [n \in OutNames |-> NoOut]

\* group_urls_by_prefix: one turn of the for loop
GroupPair ==
    /\ cb_pc = "group"
    /\ cb_i <= Len(cb_pairs)
    /\ LET pair == cb_pairs[cb_i]
           key == prefix_str(pair[1])
           at == {n \in 1..Len(groups) : groups[n].key = key}
       IN  groups' = IF at = {}
                     THEN Append(groups, [key |-> key, items |-> <<pair>>])
                     ELSE [groups EXCEPT ![SetMin(at)].items = Append(@, pair)]
    /\ cb_i' = cb_i + 1
    /\ UNCHANGED <<cb_pairs, parents, cb_pc, cb_g, cb_j, combined_content, warnings,
                   src_dir, out_dir>>
    /\ UNCHANGED offCombine

\* group_urls_by_prefix returns; Combiner.main begins the loop over the groups
GroupReturn ==
    /\ cb_pc = "group"
    /\ cb_i > Len(cb_pairs)
    /\ cb_pc' = "next"
    /\ cb_g' = 1
    /\ UNCHANGED <<cb_pairs, parents, cb_i, groups, cb_j, combined_content, warnings,
                   src_dir, out_dir>>
    /\ UNCHANGED offCombine

\* Combiner.main calls combine_group for the next group (no group is empty,
\* so the test of line 155 never skips one)
CombineCall ==
    /\ cb_pc = "next"
    /\ cb_g <= Len(groups)
    /\ cb_pc' = "items"
    /\ cb_j' = 1
    /\ combined_content' = <<>>
    /\ warnings' = <<>>
    /\ UNCHANGED <<cb_pairs, parents, cb_i, groups, cb_g, src_dir, out_dir>>
    /\ UNCHANGED offCombine

\* combine_group: one turn of the for loop over items: the file is read and
\* its text appended between the markers, or it is missing and a warning is
\* printed; open() of a file that is not there raises FileNotFoundError
CombineItem ==
    /\ cb_pc = "items"
    /\ cb_j <= Len(groups[cb_g].items)
    /\ LET item == groups[cb_g].items[cb_j] IN
       \E entry \in SrcStates :
        /\ src_dir[item[2]].known => entry = src_dir[item[2]]
        /\ src_dir' = [src_dir EXCEPT ![item[2]] = entry]
        /\ IF os_path_exists(entry)
           THEN IF entry.exists
                THEN /\ combined_content' = Append(combined_content, Chunk(item[1], entry.html))
                     /\ cb_j' = cb_j + 1
                     /\ UNCHANGED <<warnings, cb_pc>>
                ELSE /\ cb_pc' = "raised"
                     /\ UNCHANGED <<combined_content, warnings, cb_j>>
           ELSE /\ warnings' = Append(warnings, item[2])
                /\ cb_j' = cb_j + 1
                /\ UNCHANGED <<combined_content, cb_pc>>
    /\ UNCHANGED <<cb_pairs, parents, cb_i, groups, cb_g, out_dir>>
    /\ UNCHANGED offCombine

\* combine_group: the combined file is written and the call returns
CombineWrite ==
    /\ cb_pc = "items"
    /\ cb_j > Len(groups[cb_g].items)
    /\ out_dir' = [out_dir EXCEPT ![combined_filename(groups[cb_g].key)] =
                      [exists |-> TRUE, text |-> JoinNewline(combined_content)]]
    /\ cb_g' = cb_g + 1
    /\ cb_pc' = "next"
    /\ UNCHANGED <<cb_pairs, parents, cb_i, groups, cb_j, combined_content, warnings,
                   src_dir>>
    /\ UNCHANGED offCombine

\* Combiner.main: every group is combined
CombineDone ==
    /\ cb_pc = "next"
    /\ cb_g > Len(groups)
    /\ cb_pc' = "done"
    /\ UNCHANGED <<cb_pairs, parents, cb_i, groups, cb_g, cb_j, combined_content,
                   warnings, src_dir, out_dir>>
    /\ UNCHANGED offCombine

NextCombine ==
    \/ GroupPair
    \/ GroupReturn
    \/ CombineCall
    \/ CombineItem
    \/ CombineWrite
    \/ CombineDone

\* one run of the combiner on the lines of a map file
SpecCombine == InitCombine /\ [][NextCombine]_vars

----------------------------------------------------------------------------
(* Crawler.py: is_within_prefix called on a crawler that is not crawling *)

\* a WebCrawler is built for a seed
InitClassify ==
    /\ \E s \in ClassifySeeds : url = RStripSlash(s)
    /\ CrawlerBuilt
    /\ DlIdle
    /\ CbIdle
    /\ HcIdle
    /\ MainIdle

\* crawler.is_within_prefix(link) is called and its result noted
Classify ==
    /\ \E link \in ClassifyLinks :
        classified' = classified \cup {<<link, is_within_prefix(link)>>}
    /\ UNCHANGED <<main_pc, progress, p_idx, links_ref>>
    /\ UNCHANGED <<crawlVars, dlVars, cbVars, hcVars>>

NextClassify == Classify

SpecClassify == InitClassify /\ [][NextClassify]_vars

----------------------------------------------------------------------------
(* main.py: main *)

\* crawler.finished, as spinner_and_progress reads it: the crawl has
\* signalled completion. The flag is taken to be set whenever start_crawling
\* has ended, by a return or by an exception
crawler_finished == status # "running"

\* crawler.parsed_self.netloc: the domain component of the seed URL
target_netloc == Netloc(url)

\* main(): the defaults of --depth and --outside-depth
DefaultDepth == 2
DefaultOutsideDepth == 1

\* main() has parsed the default depths, built the crawler, started the
\* spinner_and_progress thread unless verbose, and calls start_crawling
InitMain ==
    /\ \E s \in MainSeeds : url = RStripSlash(s)
    /\ max_depth = DefaultDepth
    /\ outside_depth = DefaultOutsideDepth
    /\ links = {}
    /\ subdomains = {}
    /\ jsfiles = {}
    /\ stack = <<Frame(url, 1)>>
    /\ status = "running"
    /\ web = [u \in Urls |-> NoPage]
    /\ net = [u \in Urls |-> <<>>]
    /\ requests = {}
    /\ fetches = [u \in Urls |-> 0]
    /\ entered = {<<url, 1>>}
    /\ found = {}
    /\ calls = 1
    /\ run = 1
    /\ prev = [status |-> "none", links |-> {}]
    /\ dl_links = {}
    /\ verbose \in BOOLEAN
    /\ files = [f \in Filenames |-> NoFile]
    /\ map_file = <<>>
    /\ counter = 0
    /\ finished = FALSE
    /\ spinner = "none"
    /\ idx = 0
    /\ dl_pc = "idle"
    /\ dl_todo = {}
    /\ dl_fetches = [l \in Links |-> 0]
    /\ dl_written = {}
    /\ dl_run = 0
    /\ dl_prev = [files |-> files, written |-> {}]
    /\ CbIdle
    /\ HcIdle
    /\ classified = {}
    /\ main_pc = "crawl"
    /\ progress = IF verbose THEN "none" ELSE "polling"
    /\ p_idx = 0
    /\ links_ref = "crawler"

\* spinner_and_progress: one turn of the while loop
ProgressPoll ==
    /\ progress = "polling"
    /\ ~crawler_finished
    /\ p_idx' = (p_idx + 1) % 4
    /\ UNCHANGED <<classified, main_pc, progress, links_ref>>
    /\ UNCHANGED <<crawlVars, dlVars, cbVars, hcVars>>

\* spinner_and_progress: crawler.finished is set, the thread ends and its
\* idx with it
ProgressExit ==
    /\ progress = "polling"
    /\ crawler_finished
    /\ progress' = "done"
    /\ p_idx' = 0
    /\ UNCHANGED <<classified, main_pc, links_ref>>
    /\ UNCHANGED <<crawlVars, dlVars, cbVars, hcVars>>

\* main(): start_crawling raises; nothing catches it, main() ends
MainCrawlRaise ==
    /\ main_pc = "crawl"
    /\ status = "raised"
    /\ main_pc' = "raised"
    /\ UNCHANGED <<classified, progress, p_idx, links_ref>>
    /\ UNCHANGED <<crawlVars, dlVars, cbVars, hcVars>>

\* main(): start_crawling has returned and crawl_spinner.join() returns,
\* when there is a thread
MainJoin ==
    /\ main_pc = "crawl"
    /\ status = "returned"
    /\ progress \in {"none", "done"}
    /\ main_pc' = "joined"
    /\ UNCHANGED <<classified, progress, p_idx, links_ref>>
    /\ UNCHANGED <<crawlVars, dlVars, cbVars, hcVars>>

\* main(): args.restrict is set: crawler.links is bound to a new set, of the
\* links on the target domain
MainRestrict ==
    /\ main_pc = "joined"
    /\ links' = {link \in links : Netloc(link) = target_netloc}
    /\ links_ref' = "filtered"
    /\ main_pc' = "ready"
    /\ UNCHANGED <<url, max_depth, outside_depth, subdomains, jsfiles, stack, status,
                   web, net, requests, fetches, entered, found, calls, run, prev>>
    /\ UNCHANGED <<classified, progress, p_idx>>
    /\ UNCHANGED <<dlVars, cbVars, hcVars>>

\* main(): args.restrict is not set
MainNoRestrict ==
    /\ main_pc = "joined"
    /\ main_pc' = "ready"
    /\ UNCHANGED <<classified, progress, p_idx, links_ref>>
    /\ UNCHANGED <<crawlVars, dlVars, cbVars, hcVars>>

\* main(): the output directory is made and download_all(crawler.links, ...)
\* is called: with no link it returns at once, else the counter and the flag
\* are set, the spinner thread is started unless verbose, the map file is
\* cleared, and the for loop begins
MainArchive ==
    /\ main_pc = "ready"
    /\ main_pc' = "archive"
    /\ dl_links' = links
    /\ dl_run' = dl_run + 1
    /\ dl_prev' = [files |-> files, written |-> dl_written]
    /\ dl_written' = {}
    /\ dl_fetches' = [l \in Links |-> 0]
    /\ IF Cardinality(links) = 0
       THEN /\ dl_todo' = {}
            /\ spinner' = "none"
            /\ dl_pc' = "returned"
            /\ UNCHANGED <<map_file, counter, finished, idx>>
       ELSE /\ counter' = 0
            /\ finished' = FALSE
            /\ spinner' = IF verbose THEN "none" ELSE "polling"
            /\ idx' = 0
            /\ map_file' = <<>>
            /\ dl_todo' = links
            /\ dl_pc' = "loop"
    /\ UNCHANGED <<verbose, files>>
    /\ UNCHANGED <<classified, progress, p_idx, links_ref>>
    /\ UNCHANGED <<crawlVars, cbVars, hcVars>>

\* main(): download_all raises; nothing catches it, main() ends
MainArchiveRaise ==
    /\ main_pc = "archive"
    /\ dl_pc = "raised"
    /\ main_pc' = "raised"
    /\ UNCHANGED <<classified, progress, p_idx, links_ref>>
    /\ UNCHANGED <<crawlVars, dlVars, cbVars, hcVars>>

\* main(): download_all has returned; the count is printed (Combiner has no
\* combine_all, so --combine ends in the ImportError branch) and main() ends
MainDone ==
    /\ main_pc = "archive"
    /\ dl_pc = "returned"
    /\ main_pc' = "done"
    /\ UNCHANGED <<classified, progress, p_idx, links_ref>>
    /\ UNCHANGED <<crawlVars, dlVars, cbVars, hcVars>>

\* the steps of the main thread. The links of a crawl all start with http,
\* none is an image and no two share a file name, and main() archives into
\* a directory that holds no page, so the three skipping branches of the
\* loop of download_all are not part of a run of main()
MainThread ==
    \/ CrawlStep
    \/ MainCrawlRaise
    \/ MainJoin
    \/ MainRestrict
    \/ MainNoRestrict
    \/ MainArchive
    \/ DlFetchOK
    \/ DlFetchFail
    \/ DlSaveRaise
    \/ DlLogRaise
    \/ DlFinish
    \/ DlJoin
    \/ MainArchiveRaise
    \/ MainDone

ProgressThread ==
    \/ ProgressPoll
    \/ ProgressExit

SpinnerThread ==
    \/ SpinnerPoll
    \/ SpinnerExit

NextMain ==
    \/ MainThread
    \/ ProgressThread
    \/ SpinnerThread

\* one run of main()
SpecMain == InitMain /\ [][NextMain]_vars

\* each of the three threads is scheduled again and again: the main thread's
\* requests have timeouts, the others sleep 0.1 s between polls
FairSpecMain ==
    /\ SpecMain
    /\ WF_vars(MainThread)
    /\ WF_vars(ProgressThread)
    /\ WF_vars(SpinnerThread)

----------------------------------------------------------------------------
(* HtmlCombiner.py *)

\* combine_html_files: max_size
max_size == 5 * 1024 * 1024

\* the size of a text of which two, joined by the separator, fill a piece
\* exactly
HalfSize == (max_size - 2) \div 2

\* os.path.getsize of the files of the directory
FileSizes == {0, HalfSize, HalfSize + 1, max_size, max_size + 1}

\* the files the directory can hold: a text of its own, named after the
\* file, of size bytes on disk of which crlf are the "\r" of a "\r\n"
HtmlFilesOf(n) ==
    {[exists |-> TRUE, parts |-> <<n>>, size |-> z, crlf |-> c] :
        z \in FileSizes, c \in {0, 1}} \ {[exists |-> TRUE, parts |-> <<n>>, size |-> 0, crlf |-> 1]}

\* f.read() of a file opened in text mode: "\r\n" is read as "\n";
\* len(content.encode('utf-8')) is what remains
Content(file) == [parts |-> file.parts, size |-> file.size - file.crlf]

\* len(separator.encode('utf-8'))
separator_bytes == 2

separator_size_none(chunk) == 0

\* combine_html_files: separator_size
separator_size(chunk) == IF chunk # <<>> THEN separator_bytes ELSE 0

\* separator.join(current_chunk), encoded as out_file.write does
RECURSIVE JoinSeparator(_)
JoinSeparator(chunk) ==
    IF chunk = <<>> THEN [parts |-> <<>>, size |-> 0]
    ELSE IF Len(chunk) = 1 THEN chunk[1]
    ELSE LET rest == JoinSeparator(Tail(chunk))
         IN  [parts |-> chunk[1].parts \o rest.parts,
              size  |-> chunk[1].size + separator_bytes + rest.size]

\* open(output_filename, 'w') and write: the file is created or replaced
WritePiece(dir, index, chunk) ==
    [dir EXCEPT ![output_filename(index)] =
        [exists |-> TRUE, parts |-> JoinSeparator(chunk).parts,
         size |-> JoinSeparator(chunk).size, crlf |-> 0]]

\* the record of a piece written
Piece(index, chunk) ==
    [index |-> index, name |-> output_filename(index), chunk |-> chunk,
     bytes |-> JoinSeparator(chunk).size]

\* python HtmlCombiner.py, answered with a directory of at most MaxHtml
\* .html files and a prefix
InitHtmlCombine ==
    /\ CrawlIdle
    /\ DlIdle
    /\ CbIdle
    /\ MainIdle
    /\ \E S \in SUBSET InputNames :
        /\ Cardinality(S) <= MaxHtml
        /\ \E f \in [S -> UNION {HtmlFilesOf(n) : n \in InputNames}] :
            /\ \A n \in S : f[n] \in HtmlFilesOf(n)
            /\ hc_dir = [n \in DirNames |-> IF n \in S THEN f[n] ELSE NoHtml]
    /\ hc_input = hc_dir
    /\ html_files = <<>>
    /\ hc_i = 1
    /\ piece_index = 1
    /\ current_chunk = <<>>
    /\ current_chunk_size = 0
    /\ pieces = <<>>
    /\ hc_pc = "idle"

\* combine_html_files, lines 7-13: the sorted glob of *.html
HcCall ==
    /\ hc_pc = "idle"
    /\ html_files' = Sorted({n \in DirNames : hc_dir[n].exists})
    /\ hc_pc' = "loop"
    /\ UNCHANGED <<hc_dir, hc_input, hc_i, piece_index, current_chunk,
                   current_chunk_size, pieces>>
    /\ UNCHANGED offPieces

\* one turn of the loop on a file over max_size: printed and skipped
HcSkip ==
    /\ hc_pc = "loop"
    /\ hc_i <= Len(html_files)
    /\ hc_dir[html_files[hc_i]].size > max_size
    /\ hc_i' = hc_i + 1
    /\ UNCHANGED <<hc_dir, hc_input, html_files, piece_index, current_chunk,
                   current_chunk_size, pieces, hc_pc>>
    /\ UNCHANGED offPieces

\* one turn of the loop on a file that fits into the current chunk
HcAppend ==
    /\ hc_pc = "loop"
    /\ hc_i <= Len(html_files)
    /\ hc_dir[html_files[hc_i]].size <= max_size
    /\ LET content == Content(hc_dir[html_files[hc_i]])
           sep == separator_size(current_chunk)
       IN  /\ ~ (current_chunk_size + sep + content.size > max_size)
           /\ current_chunk' = Append(current_chunk, content)
           /\ current_chunk_size' =
                 current_chunk_size
                 + (IF current_chunk # <<>> THEN sep ELSE 0) + content.size
    /\ hc_i' = hc_i + 1
    /\ UNCHANGED <<hc_dir, hc_input, html_files, piece_index, pieces, hc_pc>>
    /\ UNCHANGED offPieces

\* one turn of the loop on a file that does not fit: the current chunk is
\* written as piece piece_index and the file starts the next chunk
HcFlushAppend ==
    /\ hc_pc = "loop"
    /\ hc_i <= Len(html_files)
    /\ hc_dir[html_files[hc_i]].size <= max_size
    /\ LET content == Content(hc_dir[html_files[hc_i]])
           sep == separator_size(current_chunk)
           emptied == <<>>
       IN  /\ current_chunk_size + sep + content.size > max_size
           /\ hc_dir' = WritePiece(hc_dir, piece_index, current_chunk)
           /\ pieces' = Append(pieces, Piece(piece_index, current_chunk))
           /\ piece_index' = piece_index + 1
           /\ current_chunk' = Append(emptied, content)
           /\ current_chunk_size' =
                 0 + (IF emptied # <<>> THEN sep ELSE 0) + content.size
    /\ hc_i' = hc_i + 1
    /\ UNCHANGED <<hc_input, html_files, hc_pc>>
    /\ UNCHANGED offPieces

\* after the loop, a chunk that is not empty is written as the last piece
HcFinalWrite ==
    /\ hc_pc = "loop"
    /\ hc_i > Len(html_files)
    /\ current_chunk # <<>>
    /\ hc_dir' = WritePiece(hc_dir, piece_index, current_chunk)
    /\ pieces' = Append(pieces, Piece(piece_index, current_chunk))
    /\ hc_pc' = "done"
    /\ UNCHANGED <<hc_input, html_files, hc_i, piece_index, current_chunk,
                   current_chunk_size>>
    /\ UNCHANGED offPieces

\* after the loop, with an empty chunk nothing is written
HcFinalNone ==
    /\ hc_pc = "loop"
    /\ hc_i > Len(html_files)
    /\ current_chunk = <<>>
    /\ hc_pc' = "done"
    /\ UNCHANGED <<hc_dir, hc_input, html_files, hc_i, piece_index,
                   current_chunk, current_chunk_size, pieces>>
    /\ UNCHANGED offPieces

NextHtmlCombine ==
    \/ HcCall
    \/ HcSkip
    \/ HcAppend
    \/ HcFlushAppend
    \/ HcFinalWrite
    \/ HcFinalNone

SpecHtmlCombine == InitHtmlCombine /\ [][NextHtmlCombine]_vars

----------------------------------------------------------------------------
(* Claims about the crawl *)

\* the depth ceiling of a URL: max_depth when it starts with the seed URL
\* (INSIDE), outside_depth otherwise (OUTSIDE)
Ceiling(u) == IF StartsWith(u, url) THEN max_depth ELSE outside_depth

\* the requests.get call of crawl(e[1], e[2]) happened
Requested(e) == <<e[1], e[2], TRUE>> \in requests \/ <<e[1], e[2], FALSE>> \in requests

\* the absolute URLs of the anchors of the page of u
Extracted(u) ==
    {UrlJoin(u, h) : h \in {x \in web[u].hrefs : ~UrlJoinRaises(u, x)}}

\* C1: in one crawl run no URL, the seed included, is requested more than once.
C1_NoUrlFetchedTwice == \A u \in Urls : fetches[u] <= 1

\* C2: after start_crawling returns the seed URL is in links, whatever the
\* pages link to.
C2_SeedInResult == status = "returned" => url \in links

\* C3: a request is made, and links are taken from a page, only at a depth
\* within the limit of the URL's classification; a crawl() call whose depth
\* exceeds the limit makes no request and its URL is in links when the crawl
\* is over.
C3_DepthCeilings ==
    /\ \A r \in requests : r[2] <= Ceiling(r[1])
    /\ \A f \in found : f[2] <= Ceiling(f[1])
    /\ status = "returned" =>
          \A e \in entered : e[2] > Ceiling(e[1]) => (~Requested(e) /\ e[1] \in links)

\* C4: two crawls of the same site with the same limits, which differ only
\* in the order the anchors of a page are taken, end with the same links.
C4_OrderIndependent ==
    (run = 2 /\ status = "returned" /\ prev.status = "returned") => links = prev.links

\* a crawl() call that has returned was depth-exceeded, failed or expanded
Settled(e) == e[2] > Ceiling(e[1]) \/ Requested(e)

\* some page that was served carries a reference urljoin raises on
MalformedServed ==
    \E u \in Urls : web[u].known /\ \E h \in web[u].hrefs : UrlJoinRaises(u, h)

C6_FailureIsPerUrl ==
    /\ \A r \in requests : r[3] = FALSE =>
          /\ r[1] \in links
          /\ \A f \in found : ~(f[1] = r[1] /\ f[2] = r[2])
    /\ \A u \in Urls : \A i \in 1..(fetches[u] - 1) : net[u][i] = TRUE

\* the last URLs of the discovery chains of k URLs: the seed for k = 1, and
\* for k + 1 the URLs extracted from the page of a URL that ends a chain of
\* k URLs and was requested with success at depth k, k within its limit
RECURSIVE ChainEnds(_)
ChainEnds(k) ==
    IF k = 1 THEN {url}
    ELSE UNION {Extracted(u) :
                  u \in {v \in ChainEnds(k - 1) :
                           /\ <<v, k - 1, TRUE>> \in requests
                           /\ k - 1 <= Ceiling(v)}}

LongestChain == (IF max_depth > outside_depth THEN max_depth ELSE outside_depth) + 1

\* C7: every URL in links ends a discovery chain that starts at the seed.
C7_DiscoveryChain ==
    links \subseteq UNION {ChainEnds(k) : k \in 2..LongestChain}

\* the crawl returned with a URL in links whose shortest chain has three URLs
C7_Witness ==
    /\ status = "returned"
    /\ \E u \in links : u \in ChainEnds(3) /\ u \notin ChainEnds(2)

\* C8: a malformed reference on a page does not abort the crawl:
\* start_crawling does not raise.
C8_NeverAborts == status # "raised"

\* C14: is_within_prefix is pure: the seed URL it reads never changes, so it
\* gives the same result for the same link at every moment of a crawl and
\* after it, and the part of crawl() that calls it changes no attribute of
\* the crawler (url, links, subdomains, jsfiles, the depth limits).
C14_PrefixTestIsPure ==
    [][/\ url' = url
       /\ \A l \in Urls : StartsWith(l, url') = StartsWith(l, url)
       /\ (status = "running" /\ Top.pc = "enter") =>
              UNCHANGED <<url, links, subdomains, jsfiles, max_depth, outside_depth>>]_vars

\* the crawl returned after is_within_prefix was called for a URL it places
\* inside and for one it places outside
C14_Witness ==
    /\ status = "returned"
    /\ \E e1, e2 \in entered : StartsWith(e1[1], url) /\ ~StartsWith(e2[1], url)

----------------------------------------------------------------------------
(* Claims about download_all *)

\* a link download_all fetches when its file is missing: it starts with
\* http and does not end in an image extension
Eligible(link) == StartsWithHttp(link) /\ ~IsImage(link)

\* the file of the link was written by the preceding run
SavedBefore(link) == Eligible(link) /\ sanitize_filename(link) \in dl_prev.written

\* C9: a download_all run that follows another on the same links and output
\* directory makes no request for a link whose file the preceding run saved;
\* when the preceding run saved the file of every eligible link, it makes no
\* request at all and the page files are as the preceding run left them.
C9_RerunFetchesNothingSaved ==
    dl_run >= 2 =>
        /\ \A l \in dl_links : SavedBefore(l) => dl_fetches[l] = 0
        /\ (\A l \in dl_links : Eligible(l) => SavedBefore(l)) =>
              /\ \A l \in DlUrls : dl_fetches[l] = 0
              /\ files = dl_prev.files

\* a second run has returned after a first run that saved the file of every
\* eligible link, of which there is one
C9_Witness ==
    /\ dl_run = 2
    /\ dl_pc = "returned"
    /\ \E l \in dl_links : Eligible(l)
    /\ \A l \in dl_links : Eligible(l) => SavedBefore(l)

\* C10: when download_all has returned, download_map.txt has exactly one line
\* URL<TAB>filename for every page file of the directory, and no other line.
C10_MapMatchesSaved ==
    (dl_run >= 1 /\ dl_pc = "returned") =>
        /\ \A f \in Filenames : files[f] # NoFile =>
              Cardinality({i \in 1..Len(map_file) : map_file[i] = <<files[f].url, f>>}) = 1
        /\ \A i \in 1..Len(map_file) :
              /\ files[map_file[i][2]] # NoFile
              /\ files[map_file[i][2]].url = map_file[i][1]

\* C11: an I/O error of the archive (the page file or the map line cannot be
\* written) for one link does not abort download_all: it does not raise, and
\* goes on to the remaining links.
C11_IOErrorDoesNotAbort == dl_pc # "raised"

\* the file of the link did not exist when this download_all call began
NewInCall(link) == dl_prev.files[sanitize_filename(link)] = NoFile

\* C19: within one download_all call every eligible link whose file did not
\* exist when the call began is requested exactly once; no link is skipped
\* as the duplicate of another link of the same call.
C19_EachNewLinkFetchedOnce ==
    (dl_run >= 1 /\ dl_pc = "returned") =>
        \A l \in dl_links : (Eligible(l) /\ NewInCall(l)) => dl_fetches[l] = 1

----------------------------------------------------------------------------
(* Claims about the combiner *)

\* the path segments with the last n dropped, none left when n is at least
\* their number
DropLast(segments, n) ==
    IF n >= Len(segments) THEN <<>> ELSE SubSeq(segments, 1, Len(segments) - n)

\* the group key the claim gives a URL
KeyOf(u) == JoinSlash(DropLast(get_path_segments(u), parents))

\* the pairs the for loop of group_urls_by_prefix has passed
Grouped == SubSeq(cb_pairs, 1, cb_i - 1)

\* the pairs of a sequence that have key k, in their order
RECURSIVE WithKey(_, _)
WithKey(pairs, k) ==
    IF pairs = <<>> THEN <<>>
    ELSE IF KeyOf(Head(pairs)[1]) = k
         THEN <<Head(pairs)>> \o WithKey(Tail(pairs), k)
         ELSE WithKey(Tail(pairs), k)

\* C12: group_urls_by_prefix partitions its input: every pair is in exactly
\* one group, the group whose key is the path segments of its URL with the
\* last `parents` dropped (the empty key when parents is at least their
\* number); the pairs of a group are in input order; no group is empty.
C12_GroupsPartitionInput ==
    /\ \A i \in 1..Len(Grouped) :
          Cardinality({n \in 1..Len(groups) : groups[n].key = KeyOf(Grouped[i][1])}) = 1
    /\ \A n \in 1..Len(groups) :
          /\ groups[n].items # <<>>
          /\ groups[n].items = WithKey(Grouped, groups[n].key)
          /\ \A m \in 1..Len(groups) : groups[m].key = groups[n].key => m = n

\* parents = 1 over http://e/k/a/1, http://e/k/a/2, http://e/k/b/1 has given
\* the groups k/a, of two pairs, and k/b, of one
C12_Witness ==
    /\ cb_pc = "next"
    /\ parents = 1
    /\ [i \in 1..Len(cb_pairs) |-> cb_pairs[i][1]] = <<G_a1, G_a2, G_b1>>
    /\ Len(groups) = 2
    /\ groups[1].key = <<"k","/","a">> /\ Len(groups[1].items) = 2
    /\ groups[2].key = <<"k","/","b">> /\ Len(groups[2].items) = 1

\* a body between the START OF and END OF markers that name its URL
Marked(u, html) ==
    <<"<!-- START OF ">> \o u \o <<" -->\n">> \o html
        \o <<"\n<!-- END OF ">> \o u \o <<" -->\n">>

\* the marked bodies of the items whose files exist, in item order
RECURSIVE MarkedBodies(_)
MarkedBodies(items) ==
    IF items = <<>> THEN <<>>
    ELSE IF src_dir[Head(items)[2]].exists
         THEN <<Marked(Head(items)[1], src_dir[Head(items)[2]].html)>> \o MarkedBodies(Tail(items))
         ELSE MarkedBodies(Tail(items))

\* the files of the items whose files are missing, in item order
RECURSIVE MissingFiles(_)
MissingFiles(items) ==
    IF items = <<>> THEN <<>>
    ELSE IF src_dir[Head(items)[2]].exists
         THEN MissingFiles(Tail(items))
         ELSE <<Head(items)[2]>> \o MissingFiles(Tail(items))

\* C13: combine_group never fails because a source file is missing: when it
\* has returned, each missing file was warned about and the combined file
\* holds, in item order, exactly the bodies of the files that exist, each
\* between the START OF and END OF markers that name its URL.
C13_MissingFilesSkipped ==
    /\ cb_pc # "raised"
    /\ (cb_pc \in {"next", "done"} /\ cb_g > 1) =>
          LET g == groups[cb_g - 1] IN
          /\ out_dir[combined_filename(g.key)] =
                [exists |-> TRUE, text |-> JoinNewline(MarkedBodies(g.items))]
          /\ warnings = MissingFiles(g.items)

\* combine_group has returned for a group of at least two items, one whose
\* file is missing and one whose file exists
C13_Witness ==
    /\ cb_pc \in {"next", "done"}
    /\ cb_g > 1
    /\ LET g == groups[cb_g - 1] IN
       /\ Len(g.items) >= 2
       /\ \E i, j \in 1..Len(g.items) :
             src_dir[g.items[i][2]].exists /\ ~src_dir[g.items[j][2]].exists
       /\ out_dir[combined_filename(g.key)].exists

\* C20: two groups with different keys are written to different combined
\* files.
C20_DistinctGroupsDistinctFiles ==
    \A m, n \in 1..Len(groups) :
        groups[m].key # groups[n].key =>
            combined_filename(groups[m].key) # combined_filename(groups[n].key)

----------------------------------------------------------------------------
(* Claims about the classification *)

\* C15: every URL is_within_prefix places inside has the authority (host) of
\* the seed.
C15_InsideHasSeedHost ==
    \A c \in classified : c[2] => Netloc(c[1]) = Netloc(url)

----------------------------------------------------------------------------
(* Claims about main *)

C17_SpinnersOnlyObserve ==
    [][/\ (progress = "polling" /\ (p_idx' # p_idx \/ progress' # progress)) =>
              UNCHANGED <<url, max_depth, outside_depth, links, subdomains, jsfiles,
                          stack, status, links_ref>>
       /\ (spinner = "polling" /\ (idx' # idx \/ spinner' # spinner)) =>
              UNCHANGED <<counter, finished, files, map_file, dl_links, dl_todo,
                          dl_pc, dl_fetches, dl_written>>]_vars

\* main() has ended with links crawled and pages archived, after the first
\* thread ended and the second polled and ended
C17_Witness ==
    /\ main_pc = "done"
    /\ progress = "done"
    /\ spinner = "done" /\ idx > 0
    /\ links # {} /\ dl_written # {}

\* C18: every progress thread that was started ends: its finished signal is
\* set and it leaves its loop, whether the crawl and the download loop end
\* normally or on an error that is not a request failure.
C18_ProgressThreadsExit ==
    /\ (progress = "polling") ~> (progress = "done")
    /\ (spinner = "polling") ~> (spinner = "done")

----------------------------------------------------------------------------
(* Claims about combine_html_files *)

FiveMB == 5 * 1024 * 1024

\* the bytes of the texts of a chunk joined by the two-byte separator
RECURSIVE JoinedBytes(_)
JoinedBytes(chunk) ==
    IF chunk = <<>> THEN 0
    ELSE chunk[1].size + (IF Len(chunk) > 1 THEN 2 ELSE 0) + JoinedBytes(Tail(chunk))

\* the size accounting of the chunk and the limit on the pieces
ChunkWithinLimit ==
    /\ current_chunk_size = JoinedBytes(current_chunk)
    /\ current_chunk_size <= FiveMB
    /\ \A i \in 1..Len(pieces) :
        /\ pieces[i].bytes = JoinedBytes(pieces[i].chunk)
        /\ pieces[i].bytes <= FiveMB

\* no piece is written from a chunk without a file
NoPieceWithoutFile == \A i \in 1..Len(pieces) : pieces[i].chunk # <<>>

\* a piece of zero bytes holds one file and that file is empty
ZeroBytesOnlyOfEmptyFile ==
    \A i \in 1..Len(pieces) :
        pieces[i].bytes = 0 =>
            Len(pieces[i].chunk) = 1 /\ pieces[i].chunk[1].size = 0

\* C21: in combine_html_files, after every turn of the loop
\* current_chunk_size is the byte size of the chunk's texts joined by the
\* two-byte separator and is at most 5 MB, every piece written is at most
\* 5 MB, and no piece is written from a chunk without a file: a piece has
\* zero bytes only when its single file is empty.
C21_ChunkWithinLimit ==
    /\ ChunkWithinLimit
    /\ NoPieceWithoutFile
    /\ ZeroBytesOnlyOfEmptyFile

\* two files fill the first piece to exactly 5 MB and a third file goes to a
\* second piece
C21_Witness ==
    /\ hc_pc = "done"
    /\ Len(pieces) >= 2
    /\ Len(pieces[1].chunk) = 2
    /\ pieces[1].bytes = FiveMB

\* C21 as stated: the same, and no piece written has zero bytes.
C21_NoEmptyPiece ==
    /\ ChunkWithinLimit
    /\ \A i \in 1..Len(pieces) : pieces[i].bytes > 0

\* the input files of at most 5 MB
KeptFiles == {n \in DirNames : hc_input[n].exists /\ hc_input[n].size <= FiveMB}

\* the texts of pieces 1..k one after the other, each named after the
\* input file it was in when combine_html_files was called
RECURSIVE Listing(_)
Listing(ps) ==
    IF ps = <<>> THEN <<>>
    ELSE JoinSeparator(ps[1].chunk).parts \o Listing(Tail(ps))

\* C22: when combine_html_files has returned, the pieces 1..k one after the
\* other list exactly the input files of at most 5 MB, each once, in sorted
\* file name order (so a file over 5 MB is in none), and the pieces are
\* numbered 1, 2, ... without a gap.
C22_NothingLostNothingDuplicated ==
    hc_pc = "done" =>
        /\ Listing(pieces) = Sorted(KeptFiles)
        /\ \A i \in 1..Len(pieces) : pieces[i].index = i

====
